---- MODULE Spec2Model ----
(***************************************************************************)
(* auto-subtitle: the cache-aware subtitle pipeline of cli.py (main,       *)
(* get_audio, get_subtitles) and the subtitle codec of utils.py            *)
(* (format_timestamp, parse_timestamp, write_srt, translate_srt_file).     *)
(*                                                                         *)
(* Spec       one run of main over a list of videos, step by step          *)
(* SpecCodec  format_timestamp, then parse_timestamp of its result         *)
(* SpecSrt    write_srt, then the block parser of translate_srt_file       *)
(* SpecResolve    the classification loop of main over videos some of     *)
(*                which are not on disk                                    *)
(* SpecRerun      a run of main and a second run with the same arguments   *)
(* SpecTranslate  the translation of one file, segment by segment: the     *)
(*                loop of get_subtitles and the loops of                   *)
(*                translate_srt_file                                       *)
(***************************************************************************)
EXTENDS Integers, Sequences, FiniteSets, TLC

\* ------------------------------------------------------------------ bounds
\* longest list of input videos
MaxVideos == 2
\* latest modification time a file has before the run starts
MaxMtime == 1
\* largest hour count of a timestamp
MaxHours == 100
\* largest transcript: its segments plus the characters of their texts
MaxSize == 4
\* most segments of a transcript, and most blocks of a file, to translate
MaxSegments == 2

\* ------------------------------------------------------------- the inputs
\* Python's None
None == "None"

\* input video paths as directory, stem and extension: two share the stem "a"
VideoDirs == { "", "x/", "y/" }
Stems == { "a", "b" }
Exts == { ".mp4", ".mkv" }
Paths == { "x/a.mp4", "y/a.mkv", "b.mp4" }

\* --translate_to: absent, or a language code
Targets == { None, "es" }

\* --output_dir, and tempfile.gettempdir()
output_dir == "out"
temp_dir == "tmp"
Dirs == { output_dir, temp_dir }

\* utils.filename: os.path.splitext(os.path.basename(path))[0]
filename(path) ==
  CHOOSE s \in Stems : \E d \in VideoDirs, e \in Exts : path = d \o s \o e

\* os.path.join(dir, f"{stem}.srt") and os.path.join(dir, f"{stem}_{lang}.srt"):
\* lang is "" for the original artifact
SrtPath(dir, stem, lang) ==
  dir \o "/" \o stem \o (IF lang = "" THEN "" ELSE "_" \o lang) \o ".srt"

SrtFiles ==
  { SrtPath(d, s, l) : d \in Dirs, s \in Stems, l \in {""} \cup (Targets \ {None}) }

\* a file that does not exist
Absent == [exists |-> FALSE, mtime |-> 0, audio |-> None, lang |-> None]

\* the language of subtitles in the video's own language
SourceLang == "src"

\* a file written before the run: its text comes from an earlier run
OldFile(t) == [exists |-> TRUE, mtime |-> t, audio |-> "old", lang |-> "old"]

\* os.path.getmtime of a video file
video_mtime(path) == IF path = "x/a.mp4" THEN 0 ELSE 1

\* the clock during the run: later than every file already on disk
now == MaxMtime + 1

\* Python truthiness of an optional string
Truthy(x) == x # None /\ x # ""

\* Python's `a or b` on optional values
Or(a, b) == IF Truthy(a) THEN a ELSE b

Range(s) == { s[k] : k \in DOMAIN s }

VARIABLES
  videos,               \* args "video": the input list
  translate_to,         \* args "translate_to"
  output_srt,           \* args "output_srt"
  srt_only,             \* args "srt_only"
  fs,                   \* the subtitle files on disk
  fs0,                  \* the subtitle files on disk when the run started
  wav,                  \* the audio files in the temp directory, by stem
  written,              \* the subtitle files this run has written
  subtitles_original,   \* main: path -> cached or new original .srt
  subtitles_translated, \* main: path -> cached or new translated .srt
  embed_map,            \* main: path -> .srt to embed
  videos_to_transcribe, \* main: work list
  translate_existing,   \* main: work list of (path, original_srt, translated_srt)
  audio_keys,           \* get_audio: keys of audio_paths in insertion order
  new_original,         \* get_subtitles: path -> original .srt written
  new_translated,       \* get_subtitles: path -> translated .srt written
  result,               \* get_subtitles: the audio the last transcription heard
  pc,                   \* where main is
  i,                    \* index of the running loop
  failed,               \* the collaborator call that raised, (kind, path, index)
  extract_calls,        \* audio extraction collaborator: videos it was invoked with
  transcribe_calls,     \* transcription collaborator: videos it was invoked for
  translate_calls,      \* translation collaborator: (phase, path) per file translated
  mux_calls,            \* muxing collaborator: (index, video, subtitle file)
  missing,              \* the input videos that are not on disk
  runs,                 \* how many runs of main have started
  seconds,              \* format_timestamp: its argument, a float
  always_include_hours, \* format_timestamp: its argument
  stamp,                \* the text format_timestamp returned
  parsed,               \* what parse_timestamp made of stamp
  transcript,           \* write_srt: its argument, a list of segments
  srt_file,             \* the characters write_srt wrote
  parsed_segments,      \* translate_srt_file: what it read back from srt_file
  raised,               \* translate_srt_file: the exception that ended the reading
  mode,                 \* which code translates: get_subtitles or translate_srt_file
  translated_segments,  \* get_subtitles: the copy of result["segments"] it translates
  blocks,               \* translate_srt_file: segments, the blocks of the source file
  pos,                  \* index of the segment or block under translation
  translator_calls,     \* translation collaborator: (text, what it returned or raised)
  dst                   \* the translated .srt file: whether it exists, its characters

vars == << videos, translate_to, output_srt, srt_only, fs, fs0, wav, written,
           subtitles_original, subtitles_translated, embed_map,
           videos_to_transcribe, translate_existing, audio_keys,
           new_original, new_translated, result, pc, i, failed,
           extract_calls, transcribe_calls, translate_calls, mux_calls,
           missing, runs, seconds, always_include_hours, stamp, parsed,
           transcript, srt_file, parsed_segments, raised,
           mode, translated_segments, blocks, pos, translator_calls, dst >>

\* the variables of the translation of one file
translation == << mode, translated_segments, blocks, pos, translator_calls, dst >>

\* the variables of the codec specifications
codec == << seconds, always_include_hours, stamp, parsed,
            transcript, srt_file, parsed_segments, raised, translation >>

\* what a run of main never changes
inputs == << videos, translate_to, output_srt, srt_only, fs0, missing, runs, codec >>

\* ----------------------------------------------------------------- main
\* cli.py line 50
srt_base_dir == IF output_srt \/ srt_only THEN output_dir ELSE temp_dir

srt_original_of(path) == SrtPath(srt_base_dir, filename(path), "")

srt_translated_of(path) ==
  IF Truthy(translate_to) THEN SrtPath(srt_base_dir, filename(path), translate_to) ELSE None

\* the validity test without the comparison of modification times
valid_exists_only(disk, srt, path) == disk[srt].exists

\* the validity test with > for >=
valid_strictly_newer(disk, srt, path) ==
  disk[srt].exists /\ disk[srt].mtime > video_mtime(path)

\* os.path.exists(srt) and os.path.getmtime(srt) >= os.path.getmtime(path)
valid(disk, srt, path) == disk[srt].exists /\ disk[srt].mtime >= video_mtime(path)

original_valid(path) == valid(fs, srt_original_of(path), path)

translated_valid(path) ==
  Truthy(translate_to) /\ valid(fs, srt_translated_of(path), path)

\* the files a run over these videos can name
Named(vs, target, base) ==
  { SrtPath(base, filename(vs[k]), l) :
      k \in DOMAIN vs, l \in (IF Truthy(target) THEN {"", target} ELSE {""}) }

EmptyMap == [p \in Paths |-> None]

\* a file that is not there
NoFile == [exists |-> FALSE, content |-> << >>]

\* no file under translation
TranslationIdle ==
  /\ mode = None
  /\ translated_segments = << >>
  /\ blocks = << >>
  /\ pos = 0
  /\ translator_calls = << >>
  /\ dst = NoFile

\* no timestamp and no transcript at hand
CodecIdle ==
  /\ TranslationIdle
  /\ seconds = << >>
  /\ always_include_hours = FALSE
  /\ stamp = << >>
  /\ parsed = << >>
  /\ transcript = << >>
  /\ srt_file = << >>
  /\ parsed_segments = << >>
  /\ raised = None

\* main is called: its arguments, the subtitle files on disk, its empty locals
Start ==
  /\ CodecIdle
  /\ runs = 1
  /\ videos \in UNION { [1..n -> Paths] : n \in 1..MaxVideos }
  /\ translate_to \in Targets
  /\ output_srt \in BOOLEAN
  /\ srt_only \in BOOLEAN
  /\ \E ch \in [Named(videos, translate_to, srt_base_dir)
                  -> (-1 .. MaxMtime)] :
       fs = [f \in SrtFiles |->
               IF f \in DOMAIN ch /\ ch[f] >= 0 THEN OldFile(ch[f]) ELSE Absent]
  /\ fs0 = fs
  /\ wav = [s \in Stems |-> None]
  /\ written = {}
  /\ subtitles_original = EmptyMap
  /\ subtitles_translated = EmptyMap
  /\ embed_map = EmptyMap
  /\ videos_to_transcribe = << >>
  /\ translate_existing = << >>
  /\ audio_keys = << >>
  /\ new_original = EmptyMap
  /\ new_translated = EmptyMap
  /\ result = None
  /\ pc = "classify"
  /\ i = 1
  /\ failed = << >>
  /\ extract_calls = << >>
  /\ transcribe_calls = << >>
  /\ translate_calls = << >>
  /\ mux_calls = << >>

\* a run over videos that are all on disk
Init == Start /\ missing = {}

\* the branches of lines 68-79 with the original artifact tested first
Branch_original_first(path) ==
  IF Truthy(translate_to)
    THEN IF original_valid(path) THEN "TranslateExisting"
         ELSE IF translated_valid(path) THEN "ReuseTranslated"
         ELSE "TranscribeFresh"
    ELSE IF original_valid(path) THEN "ReuseOriginal"
         ELSE "TranscribeFresh"

\* lines 68-79: the branch taken for one video
Branch(path) ==
  IF Truthy(translate_to)
    THEN IF translated_valid(path) THEN "ReuseTranslated"
         ELSE IF original_valid(path) THEN "TranslateExisting"
         ELSE "TranscribeFresh"
    ELSE IF original_valid(path) THEN "ReuseOriginal"
         ELSE "TranscribeFresh"

\* lines 54 and 63: os.path.getmtime(path) is reached, the artifact being
\* there, and raises FileNotFoundError, the video being missing
ClassifyRaises(path) ==
  /\ path \in missing
  /\ \/ fs[srt_original_of(path)].exists
     \/ Truthy(translate_to) /\ fs[srt_translated_of(path)].exists

\* lines 52-79: one iteration of the classification loop
Classify ==
  /\ pc = "classify"
  /\ i <= Len(videos)
  /\ ~ClassifyRaises(videos[i])
  /\ LET path == videos[i]
         b == Branch(path)
     IN /\ subtitles_original' =
             IF original_valid(path)
               THEN [subtitles_original EXCEPT ![path] = srt_original_of(path)]
               ELSE subtitles_original
        /\ subtitles_translated' =
             IF translated_valid(path)
               THEN [subtitles_translated EXCEPT ![path] = srt_translated_of(path)]
               ELSE subtitles_translated
        /\ embed_map' =
             CASE b = "ReuseTranslated" -> [embed_map EXCEPT ![path] = srt_translated_of(path)]
               [] b = "ReuseOriginal" -> [embed_map EXCEPT ![path] = srt_original_of(path)]
               [] OTHER -> embed_map
        /\ translate_existing' =
             IF b = "TranslateExisting"
               THEN Append(translate_existing,
                           << path, srt_original_of(path), srt_translated_of(path) >>)
               ELSE translate_existing
        /\ videos_to_transcribe' =
             IF b = "TranscribeFresh"
               THEN Append(videos_to_transcribe, path)
               ELSE videos_to_transcribe
  /\ i' = i + 1
  /\ UNCHANGED << inputs, fs, wav, written, audio_keys, new_original, new_translated, result,
                  result, pc, failed, extract_calls, transcribe_calls, translate_calls,
                  mux_calls >>

\* main without the return of lines 113-114
AfterTranscribe_embed_always == "embed"

\* line 113 and the loop of line 116: where main goes after the transcription block
AfterTranscribe == IF srt_only THEN "done" ELSE "embed"

\* line 90
AfterTranslateExisting(todo) == IF todo # << >> THEN "get_audio" ELSE AfterTranscribe

\* line 81: the classification loop is over
ClassifyEnd ==
  /\ pc = "classify"
  /\ i > Len(videos)
  /\ pc' = IF translate_existing # << >>
             THEN "translate_existing"
             ELSE AfterTranslateExisting(videos_to_transcribe)
  /\ i' = 1
  /\ UNCHANGED << inputs, fs, wav, written, subtitles_original, subtitles_translated,
                  embed_map, videos_to_transcribe, translate_existing, audio_keys,
                  new_original, new_translated, result, failed, extract_calls,
                  transcribe_calls, translate_calls, mux_calls >>

\* an uncaught exception ends main
Raise(kind, path) ==
  /\ pc' = "aborted"
  /\ failed' = << kind, path, i >>

\* lines 54 and 63: the FileNotFoundError of os.path.getmtime(path); nothing
\* in main catches it
ClassifyRaise ==
  /\ pc = "classify"
  /\ i <= Len(videos)
  /\ ClassifyRaises(videos[i])
  /\ Raise("classify", videos[i])
  /\ UNCHANGED << inputs, fs, wav, written, subtitles_original, subtitles_translated,
                  embed_map, videos_to_transcribe, translate_existing, audio_keys,
                  new_original, new_translated, result, i, extract_calls,
                  transcribe_calls, translate_calls, mux_calls >>

\* a run over videos some of which are not on disk
InitResolve == Start /\ missing \in SUBSET Range(videos)

\* the classification loop of main
NextResolve ==
  \/ Classify
  \/ ClassifyRaise
  \/ ClassifyEnd

SpecResolve == InitResolve /\ [][NextResolve]_vars

\* a write that leaves the file with the modification time of the epoch
WriteSrt_epoch(disk, srt, audio, lang) ==
  [disk EXCEPT ![srt] = [exists |-> TRUE, mtime |-> 0, audio |-> audio, lang |-> lang]]

\* open(path, "w") and write_srt: the file now holds subtitles made from `audio`
WriteSrt(disk, srt, audio, lang) ==
  [disk EXCEPT ![srt] = [exists |-> TRUE, mtime |-> now, audio |-> audio, lang |-> lang]]

\* utils.translate_srt_file when every translate_text call returns: the source
\* is read, its segments translated, the destination written and returned
translate_srt_file(src_path, dst_path, target_lang) ==
  [ disk |-> WriteSrt(fs, dst_path, fs[src_path].audio, target_lang),
    result |-> dst_path ]

\* lines 82-88, translate_srt_file returning
TranslateExistingReturn ==
  /\ pc = "translate_existing"
  /\ i <= Len(translate_existing)
  /\ LET path == translate_existing[i][1]
         src_srt == translate_existing[i][2]
         dst_srt == translate_existing[i][3]
         r == translate_srt_file(src_srt, dst_srt, translate_to)
         translated_path == r.result
     IN /\ fs' = r.disk
        /\ written' = written \cup {dst_srt}
        /\ translate_calls' = Append(translate_calls, << "existing", path >>)
        /\ IF Truthy(translated_path)
             THEN /\ subtitles_translated' =
                       [subtitles_translated EXCEPT ![path] = translated_path]
                  /\ embed_map' = [embed_map EXCEPT ![path] = translated_path]
                  /\ UNCHANGED videos_to_transcribe
             ELSE /\ videos_to_transcribe' = Append(videos_to_transcribe, path)
                  /\ UNCHANGED << subtitles_translated, embed_map >>
  /\ i' = i + 1
  /\ UNCHANGED << inputs, wav, subtitles_original, translate_existing, audio_keys,
                  new_original, new_translated, result, pc, failed, extract_calls,
                  transcribe_calls, mux_calls >>

\* lines 82-83 with utils.py line 92: translate_text raises inside
\* translate_srt_file, before the destination is opened; nothing catches it
TranslateExistingRaise ==
  /\ pc = "translate_existing"
  /\ i <= Len(translate_existing)
  /\ translate_calls' = Append(translate_calls, << "existing", translate_existing[i][1] >>)
  /\ Raise("translate_existing", translate_existing[i][1])
  /\ UNCHANGED << inputs, fs, wav, written, subtitles_original, subtitles_translated,
                  embed_map, videos_to_transcribe, translate_existing, audio_keys,
                  new_original, new_translated, result, i, extract_calls, transcribe_calls,
                  mux_calls >>

\* line 90: the translate-existing loop is over
TranslateExistingEnd ==
  /\ pc = "translate_existing"
  /\ i > Len(translate_existing)
  /\ pc' = AfterTranslateExisting(videos_to_transcribe)
  /\ i' = 1
  /\ UNCHANGED << inputs, fs, wav, written, subtitles_original, subtitles_translated,
                  embed_map, videos_to_transcribe, translate_existing, audio_keys,
                  new_original, new_translated, result, failed, extract_calls,
                  transcribe_calls, translate_calls, mux_calls >>

\* ------------------------------------------------------------ get_audio
\* get_audio returning a list with one element for each entry of the work list
ExtractAudioReturn_every_entry ==
  /\ pc = "get_audio"
  /\ i <= Len(videos_to_transcribe)
  /\ LET path == videos_to_transcribe[i]
     IN /\ wav' = [wav EXCEPT ![filename(path)] = path]
        /\ audio_keys' = Append(audio_keys, path)
        /\ extract_calls' = Append(extract_calls, path)
  /\ i' = i + 1
  /\ UNCHANGED << inputs, fs, written, subtitles_original, subtitles_translated,
                  embed_map, videos_to_transcribe, translate_existing, new_original,
                  new_translated, result, pc, failed, transcribe_calls,
                  translate_calls, mux_calls >>

\* lines 141-150: ffmpeg writes <temp>/<stem>.wav and the dict gets its entry
ExtractAudioReturn ==
  /\ pc = "get_audio"
  /\ i <= Len(videos_to_transcribe)
  /\ LET path == videos_to_transcribe[i]
     IN /\ wav' = [wav EXCEPT ![filename(path)] = path]
        /\ audio_keys' = IF path \in Range(audio_keys)
                           THEN audio_keys
                           ELSE Append(audio_keys, path)
        /\ extract_calls' = Append(extract_calls, path)
  /\ i' = i + 1
  /\ UNCHANGED << inputs, fs, written, subtitles_original, subtitles_translated,
                  embed_map, videos_to_transcribe, translate_existing, new_original,
                  new_translated, result, pc, failed, transcribe_calls,
                  translate_calls, mux_calls >>

\* lines 145-148: ffmpeg raises; nothing catches it
ExtractAudioRaise ==
  /\ pc = "get_audio"
  /\ i <= Len(videos_to_transcribe)
  /\ extract_calls' = Append(extract_calls, videos_to_transcribe[i])
  /\ Raise("get_audio", videos_to_transcribe[i])
  /\ UNCHANGED << inputs, fs, wav, written, subtitles_original, subtitles_translated,
                  embed_map, videos_to_transcribe, translate_existing, audio_keys,
                  new_original, new_translated, result, i, transcribe_calls,
                  translate_calls, mux_calls >>

\* line 152, then line 100: get_subtitles starts on the dict get_audio returned
GetAudioEnd ==
  /\ pc = "get_audio"
  /\ i > Len(videos_to_transcribe)
  /\ pc' = "get_subtitles"
  /\ i' = 1
  /\ UNCHANGED << inputs, fs, wav, written, subtitles_original, subtitles_translated,
                  embed_map, videos_to_transcribe, translate_existing, audio_keys,
                  new_original, new_translated, result, failed, extract_calls,
                  transcribe_calls, translate_calls, mux_calls >>

\* -------------------------------------------------------- get_subtitles
\* line 160, with the output_srt argument main passes at line 101
get_subtitles_base_dir(output_srt_arg) ==
  IF output_srt_arg THEN output_dir ELSE temp_dir

\* main passing output_srt alone at line 101
get_subtitles_dir_output_srt_alone == get_subtitles_base_dir(output_srt)

get_subtitles_dir == get_subtitles_base_dir(output_srt \/ srt_only)

\* lines 159-174: transcribe the audio file of the path, write the original .srt
TranscribeReturn ==
  /\ pc = "get_subtitles"
  /\ i <= Len(audio_keys)
  /\ LET path == audio_keys[i]
         srt_original == SrtPath(get_subtitles_dir, filename(path), "")
         heard == wav[filename(path)]
     IN /\ transcribe_calls' = Append(transcribe_calls, path)
        /\ result' = heard
        /\ fs' = WriteSrt(fs, srt_original, heard, SourceLang)
        /\ written' = written \cup {srt_original}
        /\ new_original' = [new_original EXCEPT ![path] = srt_original]
  /\ IF Truthy(translate_to)
       THEN pc' = "translate_segments" /\ i' = i
       ELSE pc' = pc /\ i' = i + 1
  /\ UNCHANGED << inputs, wav, subtitles_original, subtitles_translated, embed_map,
                  videos_to_transcribe, translate_existing, audio_keys,
                  new_translated, failed, extract_calls, translate_calls, mux_calls >>

\* line 168: the transcription collaborator raises; nothing catches it
TranscribeRaise ==
  /\ pc = "get_subtitles"
  /\ i <= Len(audio_keys)
  /\ transcribe_calls' = Append(transcribe_calls, audio_keys[i])
  /\ Raise("transcribe", audio_keys[i])
  /\ UNCHANGED << inputs, fs, wav, written, subtitles_original, subtitles_translated,
                  embed_map, videos_to_transcribe, translate_existing, audio_keys,
                  new_original, new_translated, result, i, extract_calls,
                  translate_calls, mux_calls >>

\* lines 176-187: every segment translated, then the translated .srt written
TranslateSegmentsReturn ==
  /\ pc = "translate_segments"
  /\ LET path == audio_keys[i]
         srt_translated == SrtPath(get_subtitles_dir, filename(path), translate_to)
     IN /\ translate_calls' = Append(translate_calls, << "fresh", path >>)
        /\ fs' = WriteSrt(fs, srt_translated, result, translate_to)
        /\ written' = written \cup {srt_translated}
        /\ new_translated' = [new_translated EXCEPT ![path] = srt_translated]
  /\ pc' = "get_subtitles"
  /\ i' = i + 1
  /\ UNCHANGED << inputs, wav, subtitles_original, subtitles_translated, embed_map,
                  videos_to_transcribe, translate_existing, audio_keys, new_original,
                  result, failed, extract_calls, transcribe_calls, mux_calls >>

\* lines 180-181: translate_text raises on a segment, before the translated
\* .srt is opened; nothing catches it
TranslateSegmentsRaise ==
  /\ pc = "translate_segments"
  /\ translate_calls' = Append(translate_calls, << "fresh", audio_keys[i] >>)
  /\ Raise("translate_segments", audio_keys[i])
  /\ UNCHANGED << inputs, fs, wav, written, subtitles_original, subtitles_translated,
                  embed_map, videos_to_transcribe, translate_existing, audio_keys,
                  new_original, new_translated, result, i, extract_calls,
                  transcribe_calls, mux_calls >>

\* dict.update
Update(old, new) == [p \in Paths |-> IF new[p] # None THEN new[p] ELSE old[p]]

\* lines 107-111 taking the original subtitles first
EmbedTranscribed_original_first(map, todo, target, new_orig, new_trans) ==
  [p \in Paths |->
     IF p \in Range(todo)
       THEN IF new_orig[p] # None THEN new_orig[p] ELSE new_trans[p]
       ELSE map[p]]

\* lines 107-111: the embed map entries of the transcribed videos
EmbedTranscribed(map, todo, target, new_orig, new_trans) ==
  [p \in Paths |->
     IF p \in Range(todo)
       THEN IF Truthy(target) /\ new_trans[p] # None THEN new_trans[p] ELSE new_orig[p]
       ELSE map[p]]

\* line 189, then lines 104-111: get_subtitles returns and main records its results
GetSubtitlesEnd ==
  /\ pc = "get_subtitles"
  /\ i > Len(audio_keys)
  /\ subtitles_original' = Update(subtitles_original, new_original)
  /\ subtitles_translated' = Update(subtitles_translated, new_translated)
  /\ embed_map' = EmbedTranscribed(embed_map, videos_to_transcribe, translate_to,
                                   new_original, new_translated)
  /\ pc' = AfterTranscribe
  /\ i' = 1
  /\ UNCHANGED << inputs, fs, wav, written, videos_to_transcribe, translate_existing,
                  audio_keys, new_original, new_translated, result, failed,
                  extract_calls, transcribe_calls, translate_calls, mux_calls >>

\* ------------------------------------------------------- the embed loop
\* line 117
srt_to_embed(path) ==
  Or(embed_map[path], Or(subtitles_translated[path], subtitles_original[path]))

\* lines 116-133: one video, skipped without a subtitle file, else muxed
Embed ==
  /\ pc = "embed"
  /\ i <= Len(videos)
  /\ LET path == videos[i]
     IN mux_calls' = IF Truthy(srt_to_embed(path))
                       THEN Append(mux_calls, << i, path, srt_to_embed(path) >>)
                       ELSE mux_calls
  /\ i' = i + 1
  /\ UNCHANGED << inputs, fs, wav, written, subtitles_original, subtitles_translated,
                  embed_map, videos_to_transcribe, translate_existing, audio_keys,
                  new_original, new_translated, result, pc, failed, extract_calls,
                  transcribe_calls, translate_calls >>

\* lines 129-131: ffmpeg raises; nothing catches it
EmbedRaise ==
  /\ pc = "embed"
  /\ i <= Len(videos)
  /\ Truthy(srt_to_embed(videos[i]))
  /\ mux_calls' = Append(mux_calls, << i, videos[i], srt_to_embed(videos[i]) >>)
  /\ Raise("embed", videos[i])
  /\ UNCHANGED << inputs, fs, wav, written, subtitles_original, subtitles_translated,
                  embed_map, videos_to_transcribe, translate_existing, audio_keys,
                  new_original, new_translated, result, i, extract_calls,
                  transcribe_calls, translate_calls >>

\* the loop of line 116 is over: main returns
EmbedEnd ==
  /\ pc = "embed"
  /\ i > Len(videos)
  /\ pc' = "done"
  /\ i' = 1
  /\ UNCHANGED << inputs, fs, wav, written, subtitles_original, subtitles_translated,
                  embed_map, videos_to_transcribe, translate_existing, audio_keys,
                  new_original, new_translated, result, failed, extract_calls,
                  transcribe_calls, translate_calls, mux_calls >>

Next ==
  \/ Classify
  \/ ClassifyEnd
  \/ TranslateExistingReturn
  \/ TranslateExistingRaise
  \/ TranslateExistingEnd
  \/ ExtractAudioReturn
  \/ ExtractAudioRaise
  \/ GetAudioEnd
  \/ TranscribeReturn
  \/ TranscribeRaise
  \/ TranslateSegmentsReturn
  \/ TranslateSegmentsRaise
  \/ GetSubtitlesEnd
  \/ Embed
  \/ EmbedRaise
  \/ EmbedEnd

Spec == Init /\ [][Next]_vars

\* main has returned and is called a second time with the same arguments:
\* the files of the first run are on disk, the videos are as they were, and
\* the locals of main are new
Rerun ==
  /\ pc = "done"
  /\ runs = 1
  /\ runs' = 2
  /\ fs0' = fs
  /\ written' = {}
  /\ subtitles_original' = EmptyMap
  /\ subtitles_translated' = EmptyMap
  /\ embed_map' = EmptyMap
  /\ videos_to_transcribe' = << >>
  /\ translate_existing' = << >>
  /\ audio_keys' = << >>
  /\ new_original' = EmptyMap
  /\ new_translated' = EmptyMap
  /\ result' = None
  /\ pc' = "classify"
  /\ i' = 1
  /\ extract_calls' = << >>
  /\ transcribe_calls' = << >>
  /\ translate_calls' = << >>
  /\ mux_calls' = << >>
  /\ UNCHANGED << videos, translate_to, output_srt, srt_only, fs, wav, failed,
                  missing, codec >>

NextRerun == Next \/ Rerun

SpecRerun == Init /\ [][NextRerun]_vars

\* ------------------------------------------------- claims about a run
\* the two artifacts of a video, in the directory the resolver probes
Original(path) == SrtPath(srt_base_dir, filename(path), "")
Translated(path) == SrtPath(srt_base_dir, filename(path), translate_to)

TargetRequested == translate_to # None /\ translate_to # ""

\* an artifact was fresh when the run started: it existed, not older than the video
Fresh(srt, path) == fs0[srt].exists /\ fs0[srt].mtime >= video_mtime(path)

\* an artifact was stale when the run started: strictly older than the video
Stale(srt, path) == fs0[srt].exists /\ fs0[srt].mtime < video_mtime(path)

\* the action the precedence rule gives a video
Expected(path) ==
  CASE ~TargetRequested /\ Fresh(Original(path), path) -> "ReuseOriginal"
    [] ~TargetRequested /\ ~Fresh(Original(path), path) -> "TranscribeFresh"
    [] TargetRequested /\ Fresh(Translated(path), path) -> "ReuseTranslated"
    [] TargetRequested /\ ~Fresh(Translated(path), path) /\ Fresh(Original(path), path)
         -> "TranslateExisting"
    [] OTHER -> "TranscribeFresh"

\* the actions the classification loop has given a video, read off its work lists
Assigned(path) ==
    { c \in {"ReuseOriginal"} : embed_map[path] = Original(path) }
  \cup { c \in {"ReuseTranslated"} : TargetRequested /\ embed_map[path] = Translated(path) }
  \cup { c \in {"TranslateExisting"} :
           \E k \in DOMAIN translate_existing : translate_existing[k][1] = path }
  \cup { c \in {"TranscribeFresh"} : path \in Range(videos_to_transcribe) }

\* the videos the classification loop has been through
Classified == IF pc = "classify" THEN { videos[k] : k \in 1 .. (i - 1) } ELSE Range(videos)

Ended == pc \in {"done", "aborted"}

\* get_subtitles has returned and main has recorded what it wrote
Assembled == pc \in {"embed", "done"}

\* C1: while and right after the classification loop, every video it has been
\* through has exactly one of the four actions, the one the precedence rule gives:
\* a fresh translated artifact wins whether the original is fresh or stale.
C1_ClassificationPrecedence ==
  pc = "classify" =>
    \A p \in Classified : Assigned(p) = { Expected(p) }

\* C1 witness: the loop is over with a video whose translated artifact is fresh
\* and whose original is stale, and a video that needs translation only
C1_Witness ==
  /\ pc = "classify" /\ i > Len(videos)
  /\ \E p, q \in Range(videos) :
       /\ TargetRequested
       /\ Fresh(Translated(p), p) /\ Stale(Original(p), p)
       /\ Assigned(p) = {"ReuseTranslated"}
       /\ Fresh(Original(q), q) /\ ~Fresh(Translated(q), q)
       /\ Assigned(q) = {"TranslateExisting"}

\* the subtitle files the run has on record for a video
Recorded(path) ==
  ({ subtitles_original[path], subtitles_translated[path], embed_map[path] } \ {None})
    \cup { c[3] : c \in { d \in Range(mux_calls) : d[2] = path } }

\* C2: an artifact that was strictly older than its video when the run started
\* is on record for that video (cached original, cached translated, embed map,
\* muxing) only once this run has rewritten it.
C2_StaleNeverReused ==
  \A p \in Paths : \A f \in Recorded(p) : Stale(f, p) => f \in written

\* C2 witness: a run has ended with a video muxed whose original artifact was
\* stale, and one whose original artifact was reused
C2_Witness ==
  /\ pc = "done"
  /\ \E p, q \in Range(videos) :
       /\ Stale(Original(p), p)
       /\ \E c \in Range(mux_calls) : c[2] = p /\ c[3] = Original(p)
       /\ Fresh(Original(q), q) /\ Original(q) \notin written
       /\ \E c \in Range(mux_calls) : c[2] = q /\ c[3] = Original(q)

\* C3: when the translation of an existing original artifact fails, the run goes
\* on and the video is in the transcription work list.
C3_TranslateExistingFallback ==
  \A k \in DOMAIN translate_existing :
    (failed # << >> /\ failed[1] = "translate_existing" /\ failed[3] = k)
      => /\ pc # "aborted"
         /\ translate_existing[k][1] \in Range(videos_to_transcribe)

\* C4: with a target requested and both artifacts of a video on disk, the
\* assembled embed map holds the translated one, and so does every muxing call.
C4_TranslatedPreferred ==
  \A p \in Range(videos) :
    (TargetRequested /\ fs[Original(p)].exists /\ fs[Translated(p)].exists)
      => /\ Assembled => embed_map[p] = Translated(p)
         /\ \A c \in Range(mux_calls) : c[2] = p => c[3] = Translated(p)

\* C4 witness: a run has ended with one video translated from its existing
\* original and one freshly transcribed, both muxed with their translated file
C4_Witness ==
  /\ pc = "done" /\ TargetRequested
  /\ \E p, q \in Range(videos) :
       /\ \E k \in DOMAIN translate_existing : translate_existing[k][1] = p
       /\ q \in Range(videos_to_transcribe)
       /\ \A r \in {p, q} :
            /\ fs[Original(r)].exists /\ fs[Translated(r)].exists
            /\ \E c \in Range(mux_calls) : c[2] = r /\ c[3] = Translated(r)

\* C5: when muxing fails for one video, every later video of the input list
\* that has a subtitle file to embed has been passed to muxing when main ends.
C5_MuxFailureIsolated ==
  (Ended /\ failed # << >> /\ failed[1] = "embed")
    => \A k \in DOMAIN videos :
         (k > failed[3] /\ srt_to_embed(videos[k]) # None)
           => \E c \in Range(mux_calls) : c[1] = k

\* C6: when the translation of a freshly transcribed video fails, the run goes
\* on and the video's embed-map entry is its original artifact once assembled.
C6_FreshTranslationFailureIsolated ==
  (failed # << >> /\ failed[1] = "translate_segments")
    => /\ pc # "aborted"
       /\ Assembled => embed_map[failed[2]] = Original(failed[2])

\* C7: a video with no artifact on disk and a target requested goes to the
\* transcription work list, and once get_subtitles has returned both its
\* artifacts exist in the probed directory and its embed-map entry is the
\* translated one.
C7_FreshRunEndToEnd ==
  \A p \in Range(videos) :
    (TargetRequested /\ ~fs0[Original(p)].exists /\ ~fs0[Translated(p)].exists)
      => /\ p \in Classified =>
              /\ p \in Range(videos_to_transcribe)
              /\ \A k \in DOMAIN translate_existing : translate_existing[k][1] # p
              /\ pc = "classify" => embed_map[p] = None
         /\ Assembled => /\ fs[Original(p)].exists
                         /\ fs[Translated(p)].exists
                         /\ embed_map[p] = Translated(p)

\* C7 witness: such a run has ended, subtitles only, with both files written
C7_Witness ==
  /\ pc = "done" /\ TargetRequested /\ srt_only /\ ~output_srt
  /\ \E p \in Range(videos) :
       /\ ~fs0[Original(p)].exists /\ ~fs0[Translated(p)].exists
       /\ {Original(p), Translated(p)} \subseteq written
       /\ embed_map[p] = Translated(p)

\* a video whose artifact the precedence rule reuses
Reused(path) == Expected(path) \in {"ReuseOriginal", "ReuseTranslated"}

\* C8: a video classified ReuseOriginal or ReuseTranslated is never passed to
\* audio extraction or transcription, and a run of such videos alone never
\* invokes the transcription collaborator.
C8_ReuseNeedsNoTranscription ==
  /\ \A p \in Range(videos) :
       Reused(p) => p \notin Range(extract_calls) /\ p \notin Range(transcribe_calls)
  /\ (\A p \in Range(videos) : Reused(p)) => transcribe_calls = << >>

\* C8 witness: a run has ended where a reused video was muxed and another
\* video of the same stem was transcribed
C8_Witness ==
  /\ pc = "done"
  /\ \E p, q \in Range(videos) :
       /\ Reused(p) /\ fs0[Original(p)].mtime = video_mtime(p)
       /\ \E c \in Range(mux_calls) : c[2] = p
       /\ q \in Range(transcribe_calls)

\* the muxing calls of a run that went through the first n entries of the
\* input list: one for each entry whose video has an embed-map entry
MuxedEntries(n) ==
  SelectSeq([k \in 1 .. n |-> << k, videos[k], embed_map[videos[k]] >>],
            LAMBDA c : c[3] # None)

\* the muxing calls made for a video
MuxCallsFor(path) == { k \in DOMAIN mux_calls : mux_calls[k][2] = path }

\* C13 as stated: a subtitles-only run never invokes the muxing collaborator;
\* any other run that ends without a collaborator failure has invoked it
\* exactly once for each input video that has an embed-map entry, with that
\* entry and that video
C13_MuxOncePerVideo ==
  /\ srt_only => mux_calls = << >>
  /\ (pc = "done" /\ ~srt_only) =>
       \A p \in Range(videos) :
         embed_map[p] # None =>
           /\ Cardinality(MuxCallsFor(p)) = 1
           /\ \A k \in MuxCallsFor(p) : mux_calls[k][3] = embed_map[p]

\* C13 as amended: a subtitles-only run never invokes the muxing
\* collaborator; any other run invokes it in the embed loop only, once for
\* each entry of the input list whose video has an embed-map entry, in list
\* order, with that entry and that video: a video listed twice is muxed twice
C13_MuxOncePerEntry ==
  /\ srt_only => mux_calls = << >>
  /\ pc \notin {"embed", "done", "aborted"} => mux_calls = << >>
  /\ pc = "embed" => mux_calls = MuxedEntries(i - 1)
  /\ (pc = "done" /\ ~srt_only) =>
       /\ mux_calls = MuxedEntries(Len(videos))
       /\ \A p \in Range(videos) : embed_map[p] # None

\* C13 witness: a run with embedding has ended over a list that names one
\* video twice, freshly transcribed, and the video was muxed twice with its
\* embed-map entry
C13_Witness ==
  /\ pc = "done" /\ ~srt_only
  /\ Len(videos) = 2 /\ videos[1] = videos[2]
  /\ videos[1] \in Range(transcribe_calls)
  /\ mux_calls = << << 1, videos[1], embed_map[videos[1]] >>,
                    << 2, videos[1], embed_map[videos[1]] >> >>

\* a video the precedence rule sends to transcription
TranscribeFresh(path) == Expected(path) = "TranscribeFresh"

\* get_subtitles has returned
Transcribed == pc \in {"embed", "done"} /\ videos_to_transcribe # << >>

\* C17: audio extraction and transcription are invoked for videos of the
\* TranscribeFresh work list only; no video is transcribed twice, and each
\* video of the list has been transcribed when get_subtitles has returned,
\* also when its path is listed more than once; a video is transcribed only
\* after its audio was extracted; and its translated artifact is written
\* only after its original artifact
C17_TranscribeOncePerVideo ==
  /\ \A p \in Range(extract_calls) \cup Range(videos_to_transcribe) :
       TranscribeFresh(p)
  /\ Range(extract_calls) \subseteq Range(videos_to_transcribe)
  /\ Range(transcribe_calls) \subseteq Range(extract_calls)
  /\ \A j, k \in DOMAIN transcribe_calls :
       transcribe_calls[j] = transcribe_calls[k] => j = k
  /\ Transcribed => Range(videos_to_transcribe) \subseteq Range(transcribe_calls)
  /\ \A p \in Range(videos) :
       new_translated[p] # None =>
         /\ new_original[p] # None
         /\ new_original[p] \in written

\* C17 witness: a run has ended over a list that names one video twice,
\* with a target: its audio was extracted twice, it was transcribed once,
\* and both its artifacts were written
C17_Witness ==
  /\ pc = "done" /\ TargetRequested
  /\ Len(videos) = 2 /\ videos[1] = videos[2]
  /\ extract_calls = << videos[1], videos[1] >>
  /\ transcribe_calls = << videos[1] >>
  /\ new_original[videos[1]] # None
  /\ new_translated[videos[1]] # None

\* ============================================================ the codec
\* no run of main under way
RunIdle ==
  /\ videos = << >>
  /\ translate_to = None
  /\ output_srt = FALSE
  /\ srt_only = FALSE
  /\ fs = [f \in SrtFiles |-> Absent]
  /\ fs0 = fs
  /\ wav = [s \in Stems |-> None]
  /\ written = {}
  /\ subtitles_original = EmptyMap
  /\ subtitles_translated = EmptyMap
  /\ embed_map = EmptyMap
  /\ videos_to_transcribe = << >>
  /\ translate_existing = << >>
  /\ audio_keys = << >>
  /\ new_original = EmptyMap
  /\ new_translated = EmptyMap
  /\ result = None
  /\ i = 0
  /\ failed = << >>
  /\ extract_calls = << >>
  /\ transcribe_calls = << >>
  /\ translate_calls = << >>
  /\ mux_calls = << >>
  /\ missing = {}
  /\ runs = 0

run == << videos, translate_to, output_srt, srt_only, fs, fs0, wav, written,
          subtitles_original, subtitles_translated, embed_map,
          videos_to_transcribe, translate_existing, audio_keys, new_original,
          new_translated, result, i, failed, extract_calls, transcribe_calls,
          translate_calls, mux_calls, missing, runs >>

\* --------------------------------------------- Python's float and int
\* A float is an IEEE 754 double: m * 2^e with a mantissa m of exactly
\* Precision bits, or zero; only non-negative finite values occur.  The
\* mantissa is a natural of any size: limbs in base 2^15, most significant
\* first, without leading zero limbs.
Precision == 53

LimbBits == 15
Base == 2 ^ LimbBits

Min(a, b) == IF a < b THEN a ELSE b
Max(a, b) == IF a > b THEN a ELSE b

LeadingZeros(n) ==
  IF \A k \in DOMAIN n : n[k] = 0
    THEN Len(n)
    ELSE (CHOOSE k \in DOMAIN n : n[k] # 0 /\ \A j \in 1 .. (k - 1) : n[j] = 0) - 1

Norm(n) == SubSeq(n, LeadingZeros(n) + 1, Len(n))

\* the limbs of a natural below 2^31
FromNat(n) == Norm(<< n \div (Base * Base), (n \div Base) % Base, n % Base >>)

\* the value of limbs that stand for a natural below 2^31
ToNat(n) ==
  LET p == [k \in 1 .. 3 |-> IF k <= 3 - Len(n) THEN 0 ELSE n[k - (3 - Len(n))]]
  IN p[1] * Base * Base + p[2] * Base + p[3]

\* n * k + c for 0 <= k, c < Base
RECURSIVE MulSmallCarry(_, _, _)
MulSmallCarry(n, k, c) ==
  IF n = << >>
    THEN << c >>
    ELSE Append(MulSmallCarry(SubSeq(n, 1, Len(n) - 1), k, (n[Len(n)] * k + c) \div Base),
                (n[Len(n)] * k + c) % Base)

MulSmall(n, k) == Norm(MulSmallCarry(n, k, 0))

\* n * 2^s
ShiftLeft(n, s) ==
  IF n = << >> THEN << >>
  ELSE MulSmall(n, 2 ^ (s % LimbBits)) \o [k \in 1 .. (s \div LimbBits) |-> 0]

\* a + b + c for a and b of one length
RECURSIVE AddCarry(_, _, _)
AddCarry(a, b, c) ==
  IF a = << >>
    THEN << c >>
    ELSE Append(AddCarry(SubSeq(a, 1, Len(a) - 1), SubSeq(b, 1, Len(b) - 1),
                         (a[Len(a)] + b[Len(b)] + c) \div Base),
                (a[Len(a)] + b[Len(b)] + c) % Base)

PadLeft(n, len) == [k \in 1 .. (len - Len(n)) |-> 0] \o n

Add(a, b) ==
  Norm(AddCarry(PadLeft(a, Max(Len(a), Len(b))), PadLeft(b, Max(Len(a), Len(b))), 0))

\* quotient and remainder of n by d, 0 < d < Base
RECURSIVE DivSmallAcc(_, _, _, _)
DivSmallAcc(n, d, r, q) ==
  IF n = << >>
    THEN [q |-> Norm(q), r |-> r]
    ELSE DivSmallAcc(Tail(n), d, (r * Base + n[1]) % d,
                     Append(q, (r * Base + n[1]) \div d))

DivSmall(n, d) == DivSmallAcc(n, d, 0, << >>)

\* the quotient of n by 2^s, and whether the division left a remainder
ShiftRight(n, s) ==
  LET drop == Min(s \div LimbBits, Len(n))
      kept == SubSeq(n, 1, Len(n) - drop)
      lost == SubSeq(n, Len(n) - drop + 1, Len(n))
      d == DivSmall(kept, 2 ^ (s % LimbBits))
  IN [q |-> d.q, inexact |-> d.r # 0 \/ \E k \in DOMAIN lost : lost[k] # 0]

\* the number of bits of n
BitLength(n) ==
  IF n = << >> THEN 0
  ELSE (Len(n) - 1) * LimbBits
       + (CHOOSE l \in 1 .. LimbBits : 2 ^ (l - 1) <= n[1] /\ n[1] < 2 ^ l)

IsOdd(n) == n # << >> /\ n[Len(n)] % 2 = 1

\* the float 0.0
Zero == [m |-> << >>, e |-> 0]

\* the float nearest to n * 2^e (plus less than 2^e when sticky), ties to even:
\* the rounding of every float operation
RoundToFloat(n, e, sticky) ==
  LET len == BitLength(n)
      s == len - Precision
  IN IF len = 0 THEN Zero
     ELSE IF s <= 0 THEN [m |-> ShiftLeft(n, 0 - s), e |-> e + s]
     ELSE LET g == ShiftRight(n, s - 1)
              keep == ShiftRight(g.q, 1).q
              up == IsOdd(g.q) /\ (g.inexact \/ sticky \/ IsOdd(keep))
              inc == Add(keep, << 1 >>)
          IN IF ~up THEN [m |-> keep, e |-> e + s]
             ELSE IF BitLength(inc) > Precision
               THEN [m |-> ShiftRight(inc, 1).q, e |-> e + s + 1]
               ELSE [m |-> inc, e |-> e + s]

\* float(n) / float(d), and the float literal n/d, for n < 2^31 and 0 < d < Base
FDiv(n, d) ==
  LET guard == Precision + LimbBits
      f == DivSmall(ShiftLeft(FromNat(n), guard), d)
  IN RoundToFloat(f.q, 0 - guard, f.r # 0)

\* float(n) for an int n < 2^31
FromInt(n) == RoundToFloat(FromNat(n), 0, FALSE)

\* x + y
FAdd(x, y) ==
  IF x = Zero THEN y
  ELSE IF y = Zero THEN x
  ELSE LET e == Min(x.e, y.e)
       IN RoundToFloat(Add(ShiftLeft(x.m, x.e - e), ShiftLeft(y.m, y.e - e)), e, FALSE)

\* a * b on naturals of any size
RECURSIVE MulAcc(_, _, _)
MulAcc(a, b, acc) ==
  IF b = << >>
    THEN acc
    ELSE MulAcc(a, Tail(b), Add(ShiftLeft(acc, LimbBits), MulSmall(a, b[1])))

\* x * y
FMul(x, y) ==
  IF x = Zero \/ y = Zero THEN Zero
  ELSE RoundToFloat(MulAcc(x.m, y.m, << >>), x.e + y.e, FALSE)

\* round(x) for a float below 2^31: to the nearest int, ties to even
FRound(x) ==
  IF x = Zero THEN 0
  ELSE IF x.e >= 0 THEN ToNat(ShiftLeft(x.m, x.e))
  ELSE LET g == ShiftRight(x.m, (0 - x.e) - 1)
           q == ShiftRight(g.q, 1).q
       IN IF IsOdd(g.q) /\ (g.inexact \/ IsOdd(q)) THEN ToNat(q) + 1 ELSE ToNat(q)

\* ------------------------------------------------------ Python's str
\* A str is a sequence of characters, each a string of length one.
DigitChars == << "0", "1", "2", "3", "4", "5", "6", "7", "8", "9" >>

IsDigit(c) == \E d \in DOMAIN DigitChars : DigitChars[d] = c

\* str(n) for 0 <= n < 10^9
Digits(n) ==
  LET len == CHOOSE l \in 1 .. 9 : n < 10 ^ l /\ (l = 1 \/ n >= 10 ^ (l - 1))
  IN [k \in 1 .. len |-> DigitChars[((n \div 10 ^ (len - k)) % 10) + 1]]

\* f"{n:0{width}d}"
Pad(n, width) == [k \in 1 .. (width - Len(Digits(n))) |-> "0"] \o Digits(n)

IsSpace(c) == c \in { " ", "\t", "\n", "\r" }

\* str.strip()
strip(s) ==
  IF \A k \in DOMAIN s : IsSpace(s[k])
    THEN << >>
    ELSE SubSeq(s, CHOOSE k \in DOMAIN s :
                     ~IsSpace(s[k]) /\ \A j \in 1 .. (k - 1) : IsSpace(s[j]),
                   CHOOSE k \in DOMAIN s :
                     ~IsSpace(s[k]) /\ \A j \in (k + 1) .. Len(s) : IsSpace(s[j]))

\* where sep first occurs in s, 0 when it does not: str.find() + 1
Find(s, sep) ==
  LET at == { k \in 1 .. (Len(s) - Len(sep) + 1) : SubSeq(s, k, k + Len(sep) - 1) = sep }
  IN IF at = {} THEN 0 ELSE CHOOSE k \in at : \A j \in at : k <= j

\* sep in s
Contains(s, sep) == Find(s, sep) # 0

\* s.split(sep)
RECURSIVE Split(_, _)
Split(s, sep) ==
  LET at == Find(s, sep)
  IN IF at = 0
       THEN << s >>
       ELSE << SubSeq(s, 1, at - 1) >> \o Split(SubSeq(s, at + Len(sep), Len(s)), sep)

\* s.replace(old, new)
RECURSIVE Replace(_, _, _)
Replace(s, old, new) ==
  LET at == Find(s, old)
  IN IF at = 0
       THEN s
       ELSE SubSeq(s, 1, at - 1) \o new \o Replace(SubSeq(s, at + Len(old), Len(s)), old, new)

\* sep.join(parts)
RECURSIVE Join(_, _)
Join(parts, sep) ==
  IF parts = << >> THEN << >>
  ELSE IF Len(parts) = 1 THEN parts[1]
  ELSE parts[1] \o sep \o Join(Tail(parts), sep)

\* int(s) accepts s: decimal digits, white space around them allowed
IsInt(s) == strip(s) # << >> /\ \A k \in DOMAIN strip(s) : IsDigit(strip(s)[k])

RECURSIVE DigitsValue(_, _)
DigitsValue(s, acc) ==
  IF s = << >>
    THEN acc
    ELSE DigitsValue(Tail(s), 10 * acc + (CHOOSE d \in 0 .. 9 : DigitChars[d + 1] = s[1]))

\* int(s)
int(s) == DigitsValue(strip(s), 0)

\* the exception of a failed int() or of an unpacking of the wrong length
ValueError == [error |-> "ValueError"]

\* ------------------------------------------------- utils.py: timestamps
\* format_timestamp with the hour field cut to two digits
format_timestamp_two_digit_hours(secs, hours_always) ==
  LET total == FRound(FMul(secs, FromInt(1000)))
      hours == total \div 3600000
      minutes == (total % 3600000) \div 60000
      sec == (total % 60000) \div 1000
      milliseconds == total % 1000
      hours_marker == IF hours_always \/ hours > 0
                        THEN Pad(hours % 100, 2) \o << ":" >>
                        ELSE << >>
  IN hours_marker \o Pad(minutes, 2) \o << ":" >> \o Pad(sec, 2) \o << "," >>
       \o Pad(milliseconds, 3)

\* utils.format_timestamp, for seconds >= 0
format_timestamp(secs, hours_always) ==
  LET total == FRound(FMul(secs, FromInt(1000)))
      hours == total \div 3600000
      after_hours == total - hours * 3600000
      minutes == after_hours \div 60000
      after_minutes == after_hours - minutes * 60000
      sec == after_minutes \div 1000
      milliseconds == after_minutes - sec * 1000
      hours_marker == IF hours_always \/ hours > 0
                        THEN Pad(hours, 2) \o << ":" >>
                        ELSE << >>
  IN hours_marker \o Pad(minutes, 2) \o << ":" >> \o Pad(sec, 2) \o << "," >>
       \o Pad(milliseconds, 3)

\* utils.parse_timestamp: the float, or the ValueError it raises
parse_timestamp(ts) ==
  LET parts == Split(ts, << "," >>)
      hms == Split(parts[1], << ":" >>)
  IN IF Len(parts) # 2 THEN ValueError
     ELSE IF Len(hms) # 3 THEN ValueError
     ELSE IF ~(IsInt(hms[1]) /\ IsInt(hms[2]) /\ IsInt(hms[3]) /\ IsInt(parts[2]))
       THEN ValueError
     ELSE FAdd(FromInt(int(hms[1]) * 3600 + int(hms[2]) * 60 + int(hms[3])),
               FDiv(int(parts[2]), 1000))

\* the whole numbers of milliseconds the codec is tried on
MillisecondInputs ==
  { ((h * 60 + m) * 60 + sec) * 1000 + ms :
      h \in {0, 1, 99, MaxHours}, m \in {0, 1, 59}, sec \in {0, 1, 59},
      ms \in {0, 1, 118, 500, 999} }

InitCodec ==
  /\ RunIdle
  /\ pc = "format_timestamp"
  /\ \E ms \in MillisecondInputs : seconds = FDiv(ms, 1000)
  /\ always_include_hours \in BOOLEAN
  /\ stamp = << >>
  /\ parsed = << >>
  /\ transcript = << >>
  /\ srt_file = << >>
  /\ parsed_segments = << >>
  /\ raised = None
  /\ TranslationIdle

FormatTimestamp ==
  /\ pc = "format_timestamp"
  /\ stamp' = format_timestamp(seconds, always_include_hours)
  /\ pc' = "parse_timestamp"
  /\ UNCHANGED << run, translation, seconds, always_include_hours, parsed, transcript, srt_file,
                  parsed_segments, raised >>

ParseTimestamp ==
  /\ pc = "parse_timestamp"
  /\ parsed' = parse_timestamp(stamp)
  /\ pc' = "parsed"
  /\ UNCHANGED << run, translation, seconds, always_include_hours, stamp, transcript, srt_file,
                  parsed_segments, raised >>

NextCodec ==
  \/ FormatTimestamp
  \/ ParseTimestamp

SpecCodec == InitCodec /\ [][NextCodec]_vars

\* ------------------------------------------------ utils.py: SRT files
NewLine == << "\n" >>
Arrow == << "-", "-", ">" >>

\* write_srt with the text written as the transcriber gave it
SrtBlock_text_as_given(k, segment) ==
  Digits(k) \o NewLine
    \o format_timestamp(segment.start, TRUE) \o << " " >> \o Arrow \o << " " >>
    \o format_timestamp(segment.end, TRUE) \o NewLine
    \o segment.text \o NewLine
    \o NewLine

\* one block of write_srt: the text print writes for segment number k
SrtBlock(k, segment) ==
  Digits(k) \o NewLine
    \o format_timestamp(segment.start, TRUE) \o << " " >> \o Arrow \o << " " >>
    \o format_timestamp(segment.end, TRUE) \o NewLine
    \o Replace(strip(segment.text), Arrow, << "-", ">" >>) \o NewLine
    \o NewLine

RECURSIVE WriteFrom(_, _)
WriteFrom(segments, k) ==
  IF k > Len(segments) THEN << >>
  ELSE SrtBlock(k, segments[k]) \o WriteFrom(segments, k + 1)

\* utils.write_srt: what it writes to the file
write_srt(segments) == WriteFrom(segments, 1)

\* the lines a text file yields, each without its line end
Lines(content) ==
  LET pieces == Split(content, NewLine)
  IN IF pieces[Len(pieces)] = << >>
       THEN SubSeq(pieces, 1, Len(pieces) - 1)
       ELSE pieces

IsBlank(line) == strip(line) = << >>

\* translate_srt_file, first loop: the runs of non-blank lines, in order
Blocks(lines) ==
  LET starts == { j \in DOMAIN lines :
                    ~IsBlank(lines[j]) /\ (j = 1 \/ IsBlank(lines[j - 1])) }
      last(j) == CHOOSE k \in j .. Len(lines) :
                   /\ \A t \in j .. k : ~IsBlank(lines[t])
                   /\ (k = Len(lines) \/ IsBlank(lines[k + 1]))
      nth(n) == CHOOSE j \in starts : Cardinality({ t \in starts : t < j }) = n - 1
  IN [n \in 1 .. Cardinality(starts) |-> SubSeq(lines, nth(n), last(nth(n)))]

\* translate_srt_file, second loop: the blocks it does not skip
HasTimeLine(blk) == Len(blk) >= 2 /\ Contains(blk[2], Arrow)

\* the two stripped sides of the time line
TimeStrings(blk) == [k \in DOMAIN Split(blk[2], Arrow) |-> strip(Split(blk[2], Arrow)[k])]

\* the block ends the reading with a ValueError
BlockRaises(blk) ==
  \/ Len(TimeStrings(blk)) # 2
  \/ parse_timestamp(TimeStrings(blk)[1]) = ValueError
  \/ parse_timestamp(TimeStrings(blk)[2]) = ValueError

\* the translation collaborator, taken as the identity
GoogleTranslator(text) == text

\* the test of line 51 without its second half
Untranslated_empty_only(text) == text = << >>

\* utils.translate_text, line 51: not text or not text.strip()
Untranslated(text) == text = << >> \/ strip(text) = << >>

\* utils.translate_text
translate_text(text) ==
  IF Untranslated(text) THEN text ELSE GoogleTranslator(text)

\* translate_srt_file lines 87-88: the text of a block
BlockText(blk) ==
  LET text_lines == IF Len(blk) > 2 THEN SubSeq(blk, 3, Len(blk)) ELSE << << >> >>
  IN strip(Join(text_lines, << " " >>))

\* the segment translate_srt_file appends for a block
BlockSegment(blk) ==
  [start |-> parse_timestamp(TimeStrings(blk)[1]),
   end |-> parse_timestamp(TimeStrings(blk)[2]),
   text |-> translate_text(BlockText(blk))]

\* translate_srt_file up to the writing: parsed_segments, and the exception
\* that ended the second loop, if one did
read_srt(content) ==
  LET timed == SelectSeq(Blocks(Lines(content)), HasTimeLine)
      bad == { k \in DOMAIN timed : BlockRaises(timed[k]) }
      stop == IF bad = {} THEN Len(timed) + 1
              ELSE CHOOSE k \in bad : \A j \in bad : k <= j
  IN [parsed_segments |-> [k \in 1 .. (stop - 1) |-> BlockSegment(timed[k])],
      raised |-> IF bad = {} THEN None ELSE "ValueError"]

\* the characters of segment texts
TextChars == { "a", " ", "\n", "-", ">" }

Texts(len) == UNION { [1 .. l -> TextChars] : l \in 0 .. len }

\* the lists of texts of size at most the budget, the size of a list being
\* its length plus the lengths of its texts
RECURSIVE TextLists(_)
TextLists(budget) ==
  IF budget < 1 THEN { << >> }
  ELSE { << >> } \cup
       UNION { { << t >> \o rest : rest \in TextLists(budget - 1 - Len(t)) } :
               t \in Texts(budget - 1) }

\* start and end of a segment, in milliseconds
TimePairs == { << 0, 1118 >>, << 1118, MaxHours * 3600000 >> }

InitSrt ==
  /\ RunIdle
  /\ pc = "write_srt"
  /\ seconds = << >>
  /\ always_include_hours = FALSE
  /\ stamp = << >>
  /\ parsed = << >>
  /\ \E texts \in TextLists(MaxSize) :
       \E times \in [DOMAIN texts -> TimePairs] :
         transcript = [k \in DOMAIN texts |->
                         [start |-> FDiv(times[k][1], 1000),
                          end |-> FDiv(times[k][2], 1000),
                          text |-> texts[k]]]
  /\ srt_file = << >>
  /\ parsed_segments = << >>
  /\ raised = None
  /\ TranslationIdle

WriteSrtFile ==
  /\ pc = "write_srt"
  /\ srt_file' = write_srt(transcript)
  /\ pc' = "read_srt"
  /\ UNCHANGED << run, translation, seconds, always_include_hours, stamp, parsed, transcript,
                  parsed_segments, raised >>

ReadSrtFile ==
  /\ pc = "read_srt"
  /\ LET read == read_srt(srt_file)
     IN /\ parsed_segments' = read.parsed_segments
        /\ raised' = read.raised
  /\ pc' = "read"
  /\ UNCHANGED << run, translation, seconds, always_include_hours, stamp, parsed, transcript,
                  srt_file >>

NextSrt ==
  \/ WriteSrtFile
  \/ ReadSrtFile

SpecSrt == InitSrt /\ [][NextSrt]_vars

\* ------------------------------------- the translation of one file
\* the texts the transcriber gives a segment
SourceTexts ==
  { << >>, << " " >>, << "a" >>, << " ", "a", "-", "-", ">", "\n" >> }

\* start and end of the n-th segment of a transcript, in milliseconds
SegmentTimes(n) ==
  IF n % 2 = 1 THEN << (n - 1) * 1118, n * 1118 >>
  ELSE << (n - 1) * 1118, MaxHours * 3600000 + n >>

\* the results of model.transcribe: result["segments"], of at most most segments
SourceTranscripts(most) ==
  UNION { { [n \in 1 .. len |->
              [start |-> FDiv(SegmentTimes(n)[1], 1000),
               end |-> FDiv(SegmentTimes(n)[2], 1000),
               text |-> texts[n]]] : texts \in [1 .. len -> SourceTexts] } :
          len \in 0 .. most }

\* what the translation collaborator returns when it returns
Translations ==
  { << "b" >>, << >>, << "b", "\n", "\n", "-", "-", ">", " ", "b" >> }

\* a translated file left by an earlier run
OldTranslation == [exists |-> TRUE, content |-> << "o", "l", "d", "\n" >>]

\* one call of the collaborator that returned, one that raised
Returned(text, translated) == [text |-> text, returned |-> translated, raised |-> FALSE]
Raised(text) == [text |-> text, returned |-> << >>, raised |-> TRUE]

\* get_subtitles is about to write the original .srt of a transcription
InitFresh ==
  /\ mode = "fresh"
  /\ transcript \in SourceTranscripts(MaxSegments)
  /\ srt_file = << >>

\* the translate loop building each translated segment anew and losing its
\* start on the way
TranslateSegment_start_lost ==
  /\ pc = "translate_segments"
  /\ pos <= Len(translated_segments)
  /\ LET text == translated_segments[pos].text
     IN IF Untranslated(text)
          THEN UNCHANGED << translated_segments, translator_calls >>
          ELSE \E translated \in Translations :
                 /\ translator_calls' = Append(translator_calls, Returned(text, translated))
                 /\ translated_segments' =
                      [translated_segments EXCEPT ![pos].text = translated,
                                                  ![pos].start = Zero]
  /\ pos' = pos + 1
  /\ UNCHANGED << run, seconds, always_include_hours, stamp, parsed, transcript,
                  srt_file, parsed_segments, raised, mode, blocks, pc, dst >>

\* cli.py lines 180-181: translate_text on one segment, the collaborator
\* returning when it is invoked
TranslateSegment ==
  /\ pc = "translate_segments"
  /\ pos <= Len(translated_segments)
  /\ LET text == translated_segments[pos].text
     IN IF Untranslated(text)
          THEN UNCHANGED << translated_segments, translator_calls >>
          ELSE \E translated \in Translations :
                 /\ translator_calls' = Append(translator_calls, Returned(text, translated))
                 /\ translated_segments' =
                      [translated_segments EXCEPT ![pos].text = translated]
  /\ pos' = pos + 1
  /\ UNCHANGED << run, seconds, always_include_hours, stamp, parsed, transcript,
                  srt_file, parsed_segments, raised, mode, blocks, pc, dst >>

\* the collaborator raises and what was translated before is written all the
\* same, as a handler around the loop would do
TranslateSegmentRaise_partial_file ==
  /\ pc = "translate_segments"
  /\ pos <= Len(translated_segments)
  /\ ~Untranslated(translated_segments[pos].text)
  /\ translator_calls' = Append(translator_calls, Raised(translated_segments[pos].text))
  /\ raised' = "Exception"
  /\ pc' = "raised"
  /\ dst' = [exists |-> TRUE, content |-> write_srt(translated_segments)]
  /\ UNCHANGED << run, seconds, always_include_hours, stamp, parsed, transcript,
                  srt_file, parsed_segments, mode, translated_segments, blocks, pos >>

\* cli.py line 181 with utils.py line 55: the collaborator raises; nothing
\* in translate_text or get_subtitles catches it
TranslateSegmentRaise ==
  /\ pc = "translate_segments"
  /\ pos <= Len(translated_segments)
  /\ ~Untranslated(translated_segments[pos].text)
  /\ translator_calls' = Append(translator_calls, Raised(translated_segments[pos].text))
  /\ raised' = "Exception"
  /\ pc' = "raised"
  /\ UNCHANGED << run, seconds, always_include_hours, stamp, parsed, transcript,
                  srt_file, parsed_segments, mode, translated_segments, blocks, pos,
                  dst >>

\* the blocks an existing .srt file is made of: well formed with a text of
\* two lines, well formed without text, and malformed in five ways
BlockKinds ==
  { "text", "no_text", "one_line", "no_arrow", "no_milliseconds", "no_hours",
    "not_a_number" }

\* a time of whole milliseconds as SRT writes it: HH:MM:SS,mmm
SrtStamp(ms) ==
  Pad(ms \div 3600000, 2) \o << ":" >> \o Pad((ms % 3600000) \div 60000, 2) \o << ":" >>
    \o Pad((ms % 60000) \div 1000, 2) \o << "," >> \o Pad(ms % 1000, 3)

\* the start of the time line of the n-th block, of a kind
StartStamp(kind, n) ==
  CASE kind = "no_milliseconds" ->
         SubSeq(SrtStamp(SegmentTimes(n)[1]), 1, Len(SrtStamp(SegmentTimes(n)[1])) - 4)
    [] kind = "no_hours" ->
         SubSeq(SrtStamp(SegmentTimes(n)[1]), 4, Len(SrtStamp(SegmentTimes(n)[1])))
    [] kind = "not_a_number" -> << "x" >> \o Tail(SrtStamp(SegmentTimes(n)[1]))
    [] OTHER -> SrtStamp(SegmentTimes(n)[1])

\* the time line of the n-th block, of a kind
TimeLine(kind, n) ==
  StartStamp(kind, n)
    \o (IF kind = "no_arrow" THEN << " " >> ELSE << " " >> \o Arrow \o << " " >>)
    \o SrtStamp(SegmentTimes(n)[2])

\* the n-th block of a file, of a kind, with the blank line after it
SourceBlock(kind, n) ==
  CASE kind = "one_line" -> << "a" >> \o NewLine \o NewLine
    [] kind = "no_text" -> Digits(n) \o NewLine \o TimeLine(kind, n) \o NewLine \o NewLine
    [] OTHER -> Digits(n) \o NewLine \o TimeLine(kind, n) \o NewLine
                  \o << "a" >> \o NewLine \o << " ", "a" >> \o NewLine \o NewLine

\* the existing original .srt files of at most most blocks
SourceFiles(most) ==
  UNION { { Join([n \in 1 .. len |-> SourceBlock(kinds[n], n)], << >>) :
              kinds \in [1 .. len -> BlockKinds] } :
          len \in 0 .. most }

\* translate_srt_file is about to read an existing original .srt
InitExisting ==
  /\ mode = "existing"
  /\ transcript = << >>
  /\ srt_file \in SourceFiles(MaxSegments)

\* utils.py lines 65-79: the source file read into blocks
ReadBlocks ==
  /\ pc = "read_blocks"
  /\ blocks' = Blocks(Lines(srt_file))
  /\ parsed_segments' = << >>
  /\ pos' = 1
  /\ pc' = "parse_blocks"
  /\ UNCHANGED << run, seconds, always_include_hours, stamp, parsed, transcript,
                  srt_file, raised, mode, translated_segments, translator_calls, dst >>

\* utils.py lines 81-85: a block without a time line is skipped
SkipBlock ==
  /\ pc = "parse_blocks"
  /\ pos <= Len(blocks)
  /\ ~HasTimeLine(blocks[pos])
  /\ pos' = pos + 1
  /\ UNCHANGED << run, seconds, always_include_hours, stamp, parsed, transcript,
                  srt_file, parsed_segments, raised, mode, translated_segments, blocks,
                  pc, translator_calls, dst >>

\* utils.py lines 86, 90, 91: start and end of a block with a time line,
\* each the ValueError when the unpacking or its parse_timestamp raises
BlockTimes(blk) ==
  IF Len(TimeStrings(blk)) # 2
    THEN [start |-> ValueError, end |-> ValueError]
    ELSE [start |-> parse_timestamp(TimeStrings(blk)[1]),
          end |-> parse_timestamp(TimeStrings(blk)[2])]

\* utils.py lines 86-93: a block with a time line.  A ValueError of lines 86,
\* 90 or 91 ends translate_srt_file, nothing catches it; else the text goes
\* through translate_text, where the collaborator, when invoked, returns or
\* raises, and nothing catches that either
ParseBlock ==
  /\ pc = "parse_blocks"
  /\ pos <= Len(blocks)
  /\ HasTimeLine(blocks[pos])
  /\ \E times \in { BlockTimes(blocks[pos]) }, text \in { BlockText(blocks[pos]) } :
       IF times.start = ValueError \/ times.end = ValueError
         THEN /\ raised' = "ValueError"
              /\ pc' = "raised"
              /\ UNCHANGED << parsed_segments, pos, translator_calls >>
         ELSE IF Untranslated(text)
           THEN /\ parsed_segments' =
                     Append(parsed_segments,
                            [start |-> times.start, end |-> times.end, text |-> text])
                /\ pos' = pos + 1
                /\ UNCHANGED << raised, pc, translator_calls >>
           ELSE \/ \E translated \in Translations :
                     /\ translator_calls' =
                          Append(translator_calls, Returned(text, translated))
                     /\ parsed_segments' =
                          Append(parsed_segments,
                                 [start |-> times.start, end |-> times.end,
                                  text |-> translated])
                     /\ pos' = pos + 1
                     /\ UNCHANGED << raised, pc >>
                \/ /\ translator_calls' = Append(translator_calls, Raised(text))
                   /\ raised' = "Exception"
                   /\ pc' = "raised"
                   /\ UNCHANGED << parsed_segments, pos >>
  /\ UNCHANGED << run, seconds, always_include_hours, stamp, parsed, transcript,
                  srt_file, mode, translated_segments, blocks, dst >>

\* the segments the with-open block that comes next writes
ToWrite ==
  CASE pc = "write_original" -> transcript
    [] pc = "translate_segments" -> translated_segments
    [] OTHER -> parsed_segments

\* a with-open block with its write_srt.  cli.py lines 171-178: the original
\* .srt, then the segments copied for translation; cli.py lines 183-186 and
\* utils.py lines 95-96: the translated .srt, once the loop before is over
WriteFile ==
  /\ \/ pc = "write_original"
     \/ pc = "translate_segments" /\ pos > Len(translated_segments)
     \/ pc = "parse_blocks" /\ pos > Len(blocks)
  /\ \E content \in { write_srt(ToWrite) } :
       IF pc = "write_original"
         THEN /\ srt_file' = content
              /\ translated_segments' = transcript
              /\ pos' = 1
              /\ pc' = "translate_segments"
              /\ UNCHANGED dst
         ELSE /\ dst' = [exists |-> TRUE, content |-> content]
              /\ pc' = "translated"
              /\ UNCHANGED << srt_file, translated_segments, pos >>
  /\ UNCHANGED << run, seconds, always_include_hours, stamp, parsed, transcript,
                  parsed_segments, raised, mode, blocks, translator_calls >>

InitTranslate ==
  /\ RunIdle
  /\ seconds = << >>
  /\ always_include_hours = FALSE
  /\ stamp = << >>
  /\ parsed = << >>
  /\ parsed_segments = << >>
  /\ raised = None
  /\ translated_segments = << >>
  /\ blocks = << >>
  /\ pos = 0
  /\ translator_calls = << >>
  /\ dst \in { NoFile, OldTranslation }
  /\ \/ InitFresh /\ pc = "write_original"
     \/ InitExisting /\ pc = "read_blocks"

NextTranslate ==
  \/ TranslateSegment
  \/ TranslateSegmentRaise
  \/ ReadBlocks
  \/ SkipBlock
  \/ ParseBlock
  \/ WriteFile

SpecTranslate == InitTranslate /\ [][NextTranslate]_vars

\* ------------------------------------------- claims about timestamps
\* two floats are the same whole number of milliseconds
SameMillisecond(x, y) == FRound(FMul(x, FromInt(1000))) = FRound(FMul(y, FromInt(1000)))

\* C10 as stated: for a time of whole milliseconds, parse_timestamp of
\* format_timestamp(s, True) is the float s itself.
C10_RoundTripExact ==
  (pc = "parsed" /\ always_include_hours) => parsed = seconds

\* C10 as amended: for a time of whole milliseconds, parse_timestamp of
\* format_timestamp(s, True) raises nothing and is s to the millisecond: it
\* rounds to the same count of milliseconds and formats to the same text.
C10_RoundTripToMillisecond ==
  (pc = "parsed" /\ always_include_hours)
    => /\ parsed # ValueError
       /\ SameMillisecond(parsed, seconds)
       /\ format_timestamp(parsed, TRUE) = stamp

\* C10 witness: 100:59:59,999 has gone through both functions
C10_Witness ==
  /\ pc = "parsed" /\ always_include_hours
  /\ stamp = << "1", "0", "0", ":", "5", "9", ":", "5", "9", ",", "9", "9", "9" >>
  /\ parsed = seconds

\* -------------------------------------------- claims about SRT files
\* what write_srt is allowed to do to a text
ArrowsCut(text) == Replace(text, Arrow, << "-", ">" >>)

\* segment k was read back with the float start, the float end and the text
SameSegment(k) ==
  /\ parsed_segments[k].start = transcript[k].start
  /\ parsed_segments[k].end = transcript[k].end
  /\ parsed_segments[k].text = ArrowsCut(transcript[k].text)

\* segment k was read back with start and end to the millisecond and the text
SameSegmentToMillisecond(k) ==
  /\ SameMillisecond(parsed_segments[k].start, transcript[k].start)
  /\ SameMillisecond(parsed_segments[k].end, transcript[k].end)
  /\ parsed_segments[k].text = ArrowsCut(transcript[k].text)

NonEmptyTexts == \A k \in DOMAIN transcript : transcript[k].text # << >>

\* a text of one line with no white space around it
PlainText(text) ==
  /\ text # << >>
  /\ strip(text) = text
  /\ \A k \in DOMAIN text : text[k] # "\n"

PlainTexts == \A k \in DOMAIN transcript : PlainText(transcript[k].text)

\* C9 as stated: segments of non-empty text, written by write_srt and read
\* back by translate_srt_file under the identity translation, come back as
\* the same sequence: same start, same end, same text but for '-->' now '->'.
C9_SerializerRoundTrip ==
  (pc = "read" /\ NonEmptyTexts)
    => /\ raised = None
       /\ Len(parsed_segments) = Len(transcript)
       /\ \A k \in DOMAIN transcript : SameSegment(k)

\* C9 as amended: segments whose texts are one line each, non-empty and with
\* no white space around them, come back in the same number and order, each
\* with its start and end to the millisecond and its text but for '-->' now
\* '->'.
C9_PlainTextRoundTrip ==
  (pc = "read" /\ PlainTexts)
    => /\ raised = None
       /\ Len(parsed_segments) = Len(transcript)
       /\ \A k \in DOMAIN transcript : SameSegmentToMillisecond(k)

\* C9 witness: a plain segment whose text is an arrow has been written and
\* read back with its arrow cut
C9_Witness ==
  /\ pc = "read" /\ PlainTexts
  /\ Len(transcript) = 1
  /\ transcript[1].text = Arrow
  /\ raised = None
  /\ Len(parsed_segments) = 1
  /\ parsed_segments[1].text = << "-", ">" >>


\* -------------------------------------------- claims about translation
\* a text that is empty or made of whitespace only
Blank(text) == \A k \in 1 .. Len(text) : IsSpace(text[k])

\* the blocks of the file read that have a time line, in file order
TimedBlocks == SelectSeq(blocks, HasTimeLine)

\* the applications of translate_text that have returned so far, in order:
\* the text each was given and the text it gave back
Applications ==
  IF mode = "fresh"
    THEN [j \in 1 .. (pos - 1) |->
            [text |-> transcript[j].text, result |-> translated_segments[j].text]]
    ELSE [j \in 1 .. Len(parsed_segments) |->
            [text |-> BlockText(TimedBlocks[j]), result |-> parsed_segments[j].text]]

\* the applications to a text that is not blank
TranslatedApplications == SelectSeq(Applications, LAMBDA a : ~Blank(a.text))

\* the calls of the collaborator that returned
ReturnedCalls == SelectSeq(translator_calls, LAMBDA c : ~c.raised)

\* C11: translate_text gives a text that is empty or all whitespace back
\* unchanged without a call of the translation collaborator, and for every
\* other text it calls the collaborator exactly once, with that text, and
\* gives back what the call returned; a call that raises is the last one
C11_TranslateText ==
  /\ \A j \in DOMAIN Applications :
       Blank(Applications[j].text) => Applications[j].result = Applications[j].text
  /\ Len(ReturnedCalls) = Len(TranslatedApplications)
  /\ \A j \in DOMAIN TranslatedApplications :
       ReturnedCalls[j] =
         Returned(TranslatedApplications[j].text, TranslatedApplications[j].result)
  /\ \A j \in DOMAIN translator_calls :
       translator_calls[j].raised =>
         /\ j = Len(translator_calls)
         /\ pc = "raised"
         /\ ~Blank(translator_calls[j].text)

\* a file translated to its end where one text was a blank and went through
\* untouched and one other text took the single call of the collaborator
C11_Witness ==
  /\ pc = "translated"
  /\ Len(translator_calls) = 1
  /\ \E j, k \in DOMAIN Applications :
       /\ Applications[k].text = << " " >>
       /\ Applications[k].result = << " " >>
       /\ ~Blank(Applications[j].text)
       /\ Applications[j].result = translator_calls[1].returned

\* the number of segments of the file under translation
SourceLen == IF mode = "fresh" THEN Len(transcript) ELSE Len(TimedBlocks)

\* C14: the translated file is written in one step only, taken after
\* translate_text has returned for every segment of the file and nothing has
\* raised, and what is written holds all those segments; a failure on any
\* segment therefore leaves the translated path as it was
C14_NoPartialTranslation ==
  [][dst' # dst =>
       /\ raised = None
       /\ raised' = None
       /\ Len(Applications) = SourceLen
       /\ Len(ReturnedCalls) = Len(TranslatedApplications)
       /\ dst'.exists
       /\ dst'.content =
            write_srt([j \in 1 .. SourceLen |->
                         [(IF mode = "fresh" THEN transcript ELSE parsed_segments)[j]
                            EXCEPT !.text = Applications[j].result]])]_vars

\* the collaborator raised on a later segment after it had translated an
\* earlier one, and the translated file of an earlier run is still in place
C14_Witness ==
  /\ pc = "raised"
  /\ raised = "Exception"
  /\ Len(ReturnedCalls) >= 1
  /\ dst = OldTranslation

\* the sequence a translation starts from: the result of the transcription,
\* or the segments of the original file as translate_srt_file reads them
SourceSegments ==
  IF mode = "fresh" THEN transcript ELSE read_srt(srt_file).parsed_segments

\* a text without a line break
OneLine(text) == \A k \in DOMAIN text : text[k] # "\n"

\* the segments of the translated file as translate_srt_file would read them
WrittenSegments == read_srt(dst.content).parsed_segments

\* C15: the translated file holds one block for each segment of the source
\* sequence, in the same order, and the i-th block carries the start and the
\* end of the i-th source segment with the text translate_text gave back for
\* it; read back, when the translated texts are of one line each, it gives
\* as many segments as the source has, each with the start and the end of
\* its source segment to the millisecond
C15_TimingPreserved ==
  pc = "translated" =>
    /\ Len(Applications) = Len(SourceSegments)
    /\ dst.content =
         write_srt([j \in 1 .. Len(SourceSegments) |->
                      [start |-> SourceSegments[j].start,
                       end |-> SourceSegments[j].end,
                       text |-> Applications[j].result]])
    /\ (\A j \in DOMAIN Applications : OneLine(Applications[j].result))
         => /\ Len(WrittenSegments) = Len(SourceSegments)
            /\ \A j \in DOMAIN SourceSegments :
                 /\ SameMillisecond(WrittenSegments[j].start, SourceSegments[j].start)
                 /\ SameMillisecond(WrittenSegments[j].end, SourceSegments[j].end)

\* a translated file of two segments, the first translated by the
\* collaborator to one line and the second a blank passed through, the
\* second ending past the hundredth hour
C15_Witness ==
  /\ pc = "translated"
  /\ Len(SourceSegments) = 2
  /\ Len(translator_calls) = 1
  /\ translator_calls[1].returned = << "b" >>
  /\ Applications[1].result = << "b" >>
  /\ SourceSegments[2].end = FDiv(MaxHours * 3600000 + 2, 1000)

\* a block the reader has to produce a segment for: it has a time line and
\* both of its time stamps parse
WellFormed(blk) == HasTimeLine(blk) /\ ~BlockRaises(blk)

\* C16 as stated: a block whose time line holds '-->' but whose start or end
\* does not parse is skipped; reading is never aborted by it, and at the end
\* every well-formed block of the file has given its segment, in file order
C16_MalformedTimestampSkipped ==
  mode = "existing" =>
    /\ raised # "ValueError"
    /\ pc = "translated" =>
         /\ Len(parsed_segments) = Len(SelectSeq(blocks, WellFormed))
         /\ \A j \in DOMAIN parsed_segments :
              /\ parsed_segments[j].start = BlockSegment(SelectSeq(blocks, WellFormed)[j]).start
              /\ parsed_segments[j].end = BlockSegment(SelectSeq(blocks, WellFormed)[j]).end

\* ----------------------------------------- claims about the resolver
\* C12 as stated: the classification loop never raises on a missing file:
\* whichever of the video, its original artifact and its translated artifact
\* are absent, the loop goes through every video of the list, and a video
\* that is missing is classified as one whose artifacts are not fresh
C12_ResolverToleratesMissing ==
  /\ ~(pc = "aborted" /\ failed[1] = "classify")
  /\ \A k \in 1 .. (i - 1) :
       (pc = "classify" /\ videos[k] \in missing) =>
         \E n \in DOMAIN videos_to_transcribe : videos_to_transcribe[n] = videos[k]

C19_OwnSubtitles ==
  /\ \A p \in Range(transcribe_calls) : wav[filename(p)] = p
  /\ Assembled =>
       \A p \in Range(videos) :
         embed_map[p] # None => fs[embed_map[p]].audio \in {p, "old"}

====
